---- MODULE Spec2Model ----
(***************************************************************************)
(* A model of DuMeshTransformer (src/lib/DuMeshTransformer.ts): the queue  *)
(* of pending transform commands, its drain by saveToFile, the resolver    *)
(* lookups between glTF materials and game materials, the normalisation    *)
(* pass the constructor runs over the document's materials, the            *)
(* installation directory and the event emitter.                           *)
(*                                                                         *)
(* JavaScript runs the class on one thread: a step of the model is a       *)
(* synchronous run between two suspension points (await).                  *)
(***************************************************************************)
EXTENDS Integers, Sequences, FiniteSets, TLC

VARIABLES
  gltfDocument,          \* the document: its root's materials, in native order
  materialDefinitions,   \* the catalog: [items: item id -> definition]
  gameInstallationPath,  \* the installation directory, or NoPath
  pendingCommands,       \* the processing queue
  platform,              \* os.platform()
  fsPaths,               \* the paths that exist on disk
  sessions,              \* the number of sessions constructed over the document
  normalized,            \* history: the document after each construction
  saves,                 \* the saveToFile activations, in call order
  executions,            \* history: the command invocations, in start order
  enqueued,              \* history: the queue()/queueTransform() calls, in call order
  writes,                \* history: the documents handed to NodeIO.write
  mkdirs,                \* history: the directories created by fs.mkdir
  returned,              \* what the last call of a method returned or threw
  listeners,             \* the listeners of the event emitter, in subscription order
  published              \* history: the notify() calls and the listeners each one reached

vars == <<gltfDocument, materialDefinitions, gameInstallationPath, pendingCommands,
          platform, fsPaths, sessions, normalized, saves, executions, enqueued,
          writes, mkdirs, returned, listeners, published>>

\* the state of the event channel
eventVars == <<listeners, published>>

-----------------------------------------------------------------------------
(* Bounds *)

\* materials of a document
MaxMaterials == 2
\* sessions constructed, one after the other, over one document
MaxSessions == 2
\* queue() calls over a session's life
MaxCommands == 2
\* saveToFile calls over a session's life
MaxSaves == 2
\* listeners subscribed to the session's event emitter
MaxListeners == 2

-----------------------------------------------------------------------------
(* JavaScript values *)

\* material.getName() of a material whose name was set to undefined
Undefined == "<undefined>"

\* the null of `string | null` and of `MaterialDefinition | null`
Null == [null |-> TRUE]
NoPath == <<"<null>">>

\* !!x for a string or undefined
Truthy(x) == x \notin {"", Undefined}

\* members every plain object inherits from Object.prototype: a property
\* read items[id] finds them when id is not an own key
ProtoKeys == {"constructor"}
ProtoValue(k) == [native |-> k]

\* object[key]: the own property, else the inherited one, else undefined
GetProperty(object, key) ==
  IF key \in DOMAIN object THEN object[key]
  ELSE IF key \in ProtoKeys THEN ProtoValue(key)
  ELSE [undefined |-> TRUE]

\* definition.title; a value without that property yields undefined
TitleOf(definition) ==
  IF "title" \in DOMAIN definition THEN definition.title ELSE Undefined

\* { ...extras, item_id: itemId }
SpreadWithItemId(extras, itemId) ==
  [k \in DOMAIN extras \cup {"item_id"} |->
     IF k = "item_id" THEN itemId ELSE extras[k]]

\* path.join
PathJoin(p, q) == p \o q

-----------------------------------------------------------------------------
(* The inputs: documents, catalogs, the environment *)

MaterialNames == {"", "a", "constructor"}
ItemIds == {"", "b"}
CatalogKeys == {"", "a", "b"}
Titles == {"a", "T"}

ExtrasSet ==
  {[k \in S |-> IF k = "item_id" THEN id ELSE "v"] :
     S \in SUBSET {"item_id", "k"}, id \in ItemIds}

Materials == [name : MaterialNames, extras : ExtrasSet]

RECURSIVE SeqsUpTo(_, _)
SeqsUpTo(S, n) ==
  IF n = 0 THEN {<<>>}
  ELSE LET shorter == SeqsUpTo(S, n - 1)
       IN  shorter \cup {Append(s, x) : s \in {t \in shorter : Len(t) = n - 1}, x \in S}

Documents == SeqsUpTo(Materials, MaxMaterials)

Catalogs ==
  {[items |-> [k \in K |-> [title |-> t[k]]]] :
     K \in SUBSET CatalogKeys, t \in [CatalogKeys -> Titles]}

DefaultGameInstall == <<"ProgramData", "Dual Universe">>
DataSubPath == <<"Game", "data">>

-----------------------------------------------------------------------------
(* Resolver *)

getMaterialDefinitions == materialDefinitions

\* a lookup that prefers the name to the item_id extra
GameItemIdNameFirst(material) ==
  IF Truthy(material.name) THEN material.name
  ELSE IF "item_id" \in DOMAIN material.extras THEN material.extras["item_id"]
  ELSE Undefined

getGameItemIdFromGltfMaterial(material) ==
  IF "item_id" \in DOMAIN material.extras /\ Truthy(material.extras["item_id"])
  THEN material.extras["item_id"]
  ELSE material.name

getGameMaterialFromItemId(itemId) ==
  LET found == GetProperty(getMaterialDefinitions.items, itemId)
  IN  IF "undefined" \in DOMAIN found THEN Null ELSE found

getGameMaterialFromGltfMaterial(material) ==
  getGameMaterialFromItemId(getGameItemIdFromGltfMaterial(material))

isGameInstallationDirectorySet == gameInstallationPath # NoPath

\* fileExists(path.join(directory, 'Game', 'data'))
HasDataDirectory(directory) == PathJoin(directory, DataSubPath) \in fsPaths

-----------------------------------------------------------------------------
(* Construction *)

\* a pass that stamps item_id with the material's name after the renaming
PreProcessMaterialStampsName(material) ==
  LET itemId == getGameItemIdFromGltfMaterial(material)
      itemMaterial == IF Truthy(itemId) THEN getGameMaterialFromItemId(itemId) ELSE Null
  IN  IF Truthy(itemId) /\ itemMaterial # Null
      THEN [name |-> TitleOf(itemMaterial),
            extras |-> SpreadWithItemId(material.extras, TitleOf(itemMaterial))]
      ELSE material

\* a pass that stamps item_id and leaves the material's name as it was
PreProcessMaterialKeepsName(material) ==
  LET itemId == getGameItemIdFromGltfMaterial(material)
      itemMaterial == IF Truthy(itemId) THEN getGameMaterialFromItemId(itemId) ELSE Null
  IN  IF Truthy(itemId) /\ itemMaterial # Null
      THEN [name |-> material.name,
            extras |-> SpreadWithItemId(material.extras, itemId)]
      ELSE material

\* the body of the constructor's forEach, for one material
PreProcessMaterial(material) ==
  LET itemId == getGameItemIdFromGltfMaterial(material)
      itemMaterial == IF Truthy(itemId) THEN getGameMaterialFromItemId(itemId) ELSE Null
  IN  IF Truthy(itemId) /\ itemMaterial # Null
      THEN [name |-> TitleOf(itemMaterial),
            extras |-> SpreadWithItemId(material.extras, itemId)]
      ELSE material

PreProcessMaterials(document) ==
  [i \in DOMAIN document |-> PreProcessMaterial(document[i])]

\* the constructor's probe of the default installation on Windows
ProbedInstallationPath ==
  IF /\ platform = "win32"
     /\ DefaultGameInstall \in fsPaths
     /\ HasDataDirectory(DefaultGameInstall)
  THEN DefaultGameInstall
  ELSE NoPath

\* a constructor that drops from the catalog the entries no material uses
FromDocumentPruningCatalog ==
  /\ sessions < MaxSessions
  /\ sessions' = sessions + 1
  /\ gameInstallationPath' = ProbedInstallationPath
  /\ gltfDocument' = PreProcessMaterials(gltfDocument)
  /\ normalized' = Append(normalized, gltfDocument')
  /\ pendingCommands' = <<>>
  /\ materialDefinitions' =
       [items |-> [k \in {getGameItemIdFromGltfMaterial(gltfDocument[i]) :
                            i \in DOMAIN gltfDocument}
                          \cap DOMAIN materialDefinitions.items |->
                     materialDefinitions.items[k]]]
  /\ UNCHANGED <<platform, fsPaths, saves, executions, enqueued, writes, mkdirs,
                 returned>>
  /\ UNCHANGED eventVars

\* new DuMeshTransformer(document, materialDefinitions), through fromDocument:
\* a fresh session over the document as it stands
FromDocument ==
  /\ sessions < MaxSessions
  /\ sessions' = sessions + 1
  /\ gameInstallationPath' = ProbedInstallationPath
  /\ gltfDocument' = PreProcessMaterials(gltfDocument)
  /\ normalized' = Append(normalized, gltfDocument')
  /\ pendingCommands' = <<>>
  /\ UNCHANGED <<materialDefinitions, platform, fsPaths, saves, executions,
                 enqueued, writes, mkdirs, returned>>
  /\ UNCHANGED eventVars

InitNorm ==
  /\ gltfDocument \in Documents
  /\ materialDefinitions \in Catalogs
  /\ platform \in {"win32", "linux"}
  /\ fsPaths \in {{}, {DefaultGameInstall},
                  {DefaultGameInstall, PathJoin(DefaultGameInstall, DataSubPath)}}
  /\ gameInstallationPath = NoPath
  /\ pendingCommands = <<>>
  /\ sessions = 0
  /\ normalized = <<>>
  /\ saves = <<>>
  /\ executions = <<>>
  /\ enqueued = <<>>
  /\ writes = <<>>
  /\ mkdirs = <<>>
  /\ returned = "none"
  /\ listeners = <<>>
  /\ published = <<>>

NextNorm == FromDocument

SpecNorm == InitNorm /\ [][NextNorm]_vars

-----------------------------------------------------------------------------
(* The processing queue *)

\* the session, as the value `this`
Self == "session"

\* a JavaScript array passed as one value, and a number
Array(elements) == [array |-> elements]
Num(n) == [num |-> n]

\* the transform functions a caller queues: one that edits the document, one
\* that throws, one that queues itself again through context.transformer
CommandFunctions == {"edit", "failing", "requeue"}
BaseColorsTransform == "BaseColorsTransform"

\* the argument lists a caller passes after each function
ArgumentsFor(command) ==
  IF command = "edit" THEN <<Num(1), Num(2)>>
  ELSE IF command = "requeue" THEN <<Num(1)>>
  ELSE <<>>

\* the files a caller saves to, as path.dirname, the basename and path.extname
Files == {[dir |-> <<"out">>, base |-> "mesh", ext |-> ".glb"]}

\* the directories a caller configures
Directories == {DefaultGameInstall, <<"DU">>}

\* the context object a command receives
Context == [document |-> "gltfDocument", transformer |-> Self]

\* the material an "edit" command creates
EditedMaterial == [name |-> "edited", extras |-> <<>>]

\* queueTransform(command, ...args) calls this.queue(command, args): the rest
\* parameter of queue() receives the array as its one element
QueueTransformArguments(args) == <<Array(args)>>

\* a push at the head of the queue (unshift) instead of its tail
PushedAtHead(commands, command, args) ==
  <<[fn |-> command, args |-> args, id |-> Len(enqueued) + 1]>> \o commands

\* a push that is dropped once a saveToFile call has been made
PushedUntilSaving(commands, command, args) ==
  IF saves = <<>>
  THEN Append(commands, [fn |-> command, args |-> args, id |-> Len(enqueued) + 1])
  ELSE commands

\* this.pendingCommands.push({ fn, args }); id is the pushed object's identity
Pushed(commands, command, args) ==
  Append(commands, [fn |-> command, args |-> args, id |-> Len(enqueued) + 1])

\* const queue = [...this.pendingCommands]
CopiedCommands(commands) == commands

\* a drain that leaves the queue as it was
NotCleared(commands) == commands

\* this.pendingCommands = []
ClearedCommands(commands) == <<>>

\* [{ document, transformer }, ...command.args]
ApplyArguments(command) == <<Context>> \o command.args

\* a loop that does not step to the next command of the copy
NextCommandIndexStuck(i) == i

\* the for-of loop's step to the next command of the copy
NextCommandIndex(i) == i + 1

\* the call command.fn.apply(this, ...) for the command at index i of save d's copy
Invocation(d, copy, i) ==
  [save |-> d, id |-> copy[i].id, fn |-> copy[i].fn, arguments |-> ApplyArguments(copy[i])]

\* whether a call of the function completes (TRUE) or throws (FALSE)
Outcomes(fn) ==
  IF fn = "failing" THEN {FALSE}
  ELSE IF fn = BaseColorsTransform THEN {TRUE, FALSE}
  ELSE {TRUE}

\* a rejection that is swallowed: processQueue returns as after its last command
RejectionSwallowed(save) == [save EXCEPT !.pc = "drained"]

\* a command's rejection leaves processQueue and then saveToFile, which rejects
Rejected(save) == [save EXCEPT !.pc = "failed", !.err = "command"]

\* the record of a queue() call: the public entry, the function, the arguments
\* the caller gave, the save whose running command made the call (0: none) and
\* the number of saveToFile calls made before it
QueueCall(via, command, given, by) ==
  [via |-> via, fn |-> command, given |-> given, by |-> by, drains |-> Len(saves)]

\* queue(command, ...args), from the session's user
queue(via, command, given, args, by) ==
  /\ Len(enqueued) < MaxCommands
  /\ pendingCommands' = Pushed(pendingCommands, command, args)
  /\ enqueued' = Append(enqueued, QueueCall(via, command, given, by))

\* a queueTransform that also invokes the command at once
QueueTransformEager(command, args) ==
  /\ queue("queueTransform", command, args, QueueTransformArguments(args), 0)
  /\ executions' = Append(executions,
       [save |-> 0, id |-> Len(enqueued) + 1, fn |-> command,
        arguments |-> <<Context>> \o QueueTransformArguments(args)])
  /\ returned' = Self
  /\ UNCHANGED <<gltfDocument, materialDefinitions, gameInstallationPath, platform,
                 fsPaths, sessions, normalized, saves, writes, mkdirs>>
  /\ UNCHANGED eventVars

QueueTransform(command, args) ==
  /\ queue("queueTransform", command, args, QueueTransformArguments(args), 0)
  /\ returned' = Self
  /\ UNCHANGED <<gltfDocument, materialDefinitions, gameInstallationPath, platform,
                 fsPaths, sessions, normalized, saves, executions, writes, mkdirs>>
  /\ UNCHANGED eventVars

WithBaseColors ==
  /\ queue("withBaseColors", BaseColorsTransform, <<>>, <<>>, 0)
  /\ returned' = Self
  /\ UNCHANGED <<gltfDocument, materialDefinitions, gameInstallationPath, platform,
                 fsPaths, sessions, normalized, saves, executions, writes, mkdirs>>
  /\ UNCHANGED eventVars

\* saveToFile up to its first suspension: processQueue copies and clears the
\* queue and calls the first command, or returns at once on an empty copy
SaveToFile(file, saveAsJson) ==
  /\ Len(saves) < MaxSaves
  /\ LET d == Len(saves) + 1
         copy == CopiedCommands(pendingCommands)
     IN  /\ pendingCommands' = ClearedCommands(pendingCommands)
         /\ saves' = Append(saves,
              [queue |-> copy, i |-> IF copy = <<>> THEN 0 ELSE 1,
               pc |-> IF copy = <<>> THEN "drained" ELSE "command",
               err |-> "none", requeued |-> FALSE,
               file |-> file, saveAsJson |-> saveAsJson])
         /\ executions' = IF copy = <<>> THEN executions
                          ELSE Append(executions, Invocation(d, copy, 1))
  /\ UNCHANGED <<gltfDocument, materialDefinitions, gameInstallationPath, platform,
                 fsPaths, sessions, normalized, enqueued, writes, mkdirs, returned>>
  /\ UNCHANGED eventVars

\* the command running in save d
Running(d) == saves[d].queue[saves[d].i]

\* a running "requeue" command calls context.transformer.queueTransform(itself)
CommandQueuesTransform(d) ==
  /\ saves[d].pc = "command"
  /\ Running(d).fn = "requeue"
  /\ ~saves[d].requeued
  /\ queue("queueTransform", "requeue", ArgumentsFor("requeue"),
           QueueTransformArguments(ArgumentsFor("requeue")), d)
  /\ saves' = [saves EXCEPT ![d].requeued = TRUE]
  /\ UNCHANGED <<gltfDocument, materialDefinitions, gameInstallationPath, platform,
                 fsPaths, sessions, normalized, executions, writes, mkdirs, returned>>
  /\ UNCHANGED eventVars

\* the awaited command of save d settles: a rejection leaves processQueue and
\* saveToFile; a fulfilment resumes the loop, which calls the next command of
\* the copy or, past the last one, returns
CommandSettles(d) ==
  /\ saves[d].pc = "command"
  /\ Running(d).fn = "requeue" => (saves[d].requeued \/ Len(enqueued) >= MaxCommands)
  /\ \E completes \in Outcomes(Running(d).fn) :
       IF ~completes
       THEN /\ saves' = [saves EXCEPT ![d] = Rejected(saves[d])]
            /\ UNCHANGED <<gltfDocument, executions>>
       ELSE /\ gltfDocument' = IF Running(d).fn = "edit"
                               THEN Append(gltfDocument, EditedMaterial)
                               ELSE gltfDocument
            /\ IF saves[d].i < Len(saves[d].queue)
               THEN /\ saves' = [saves EXCEPT ![d].i = NextCommandIndex(saves[d].i),
                                              ![d].requeued = FALSE]
                    /\ executions' = Append(executions,
                         Invocation(d, saves[d].queue, NextCommandIndex(saves[d].i)))
               ELSE /\ saves' = [saves EXCEPT ![d].pc = "drained", ![d].requeued = FALSE]
                    /\ UNCHANGED executions
  /\ UNCHANGED <<materialDefinitions, gameInstallationPath, pendingCommands, platform,
                 fsPaths, sessions, normalized, enqueued, writes, mkdirs, returned>>
  /\ UNCHANGED eventVars

\* path.join(dir, basename), the directory of a save as .gltf
FinalDir(file) == PathJoin(file.dir, <<file.base>>)

\* the path NodeIO.write is given
WritePath(file, saveAsJson) ==
  IF saveAsJson
  THEN PathJoin(FinalDir(file), <<file.base \o ".gltf">>)
  ELSE PathJoin(file.dir, <<file.base \o ".glb">>)

\* DuMeshTransformer.getDocumentIo().write(path, this.gltfDocument): the
\* document is handed to the I/O library as it stands at the call; the write
\* is the library's, and saveToFile only returns when it settles
HandedToWrite(d) ==
  Append(writes, [save |-> d,
                  path |-> WritePath(saves[d].file, saves[d].saveAsJson),
                  document |-> gltfDocument])

\* a saveToFile that does not await processQueue: it goes on to write while
\* the drain's command is still running
SaveResumesUnawaited(d) ==
  /\ saves[d].pc \in {"command", "drained"}
  /\ IF saves[d].saveAsJson /\ FinalDir(saves[d].file) \notin fsPaths
     THEN /\ saves' = [saves EXCEPT ![d].pc = "mkdir"]
          /\ UNCHANGED writes
     ELSE /\ saves' = [saves EXCEPT ![d].pc = "written"]
          /\ writes' = HandedToWrite(d)
  /\ UNCHANGED <<gltfDocument, materialDefinitions, gameInstallationPath,
                 pendingCommands, platform, fsPaths, sessions, normalized,
                 executions, enqueued, mkdirs, returned>>
  /\ UNCHANGED eventVars

\* saveToFile resumes after `await this.processQueue()`: it starts fs.mkdir
\* when the .gltf directory is missing, else it calls write
SaveResumes(d) ==
  /\ saves[d].pc = "drained"
  /\ IF saves[d].saveAsJson /\ FinalDir(saves[d].file) \notin fsPaths
     THEN /\ saves' = [saves EXCEPT ![d].pc = "mkdir"]
          /\ UNCHANGED writes
     ELSE /\ saves' = [saves EXCEPT ![d].pc = "written"]
          /\ writes' = HandedToWrite(d)
  /\ UNCHANGED <<gltfDocument, materialDefinitions, gameInstallationPath,
                 pendingCommands, platform, fsPaths, sessions, normalized,
                 executions, enqueued, mkdirs, returned>>
  /\ UNCHANGED eventVars

\* fs.mkdir settles: it rejects when the directory has appeared meanwhile,
\* else it has created the directory and saveToFile goes on to call write
MkdirSettles(d) ==
  /\ saves[d].pc = "mkdir"
  /\ IF FinalDir(saves[d].file) \in fsPaths
     THEN /\ saves' = [saves EXCEPT ![d].pc = "failed", ![d].err = "io"]
          /\ UNCHANGED <<fsPaths, mkdirs, writes>>
     ELSE /\ fsPaths' = fsPaths \cup {FinalDir(saves[d].file)}
          /\ mkdirs' = Append(mkdirs, [save |-> d, dir |-> FinalDir(saves[d].file)])
          /\ saves' = [saves EXCEPT ![d].pc = "written"]
          /\ writes' = HandedToWrite(d)
  /\ UNCHANGED <<gltfDocument, materialDefinitions, gameInstallationPath,
                 pendingCommands, platform, sessions, normalized, executions,
                 enqueued, returned>>
  /\ UNCHANGED eventVars

\* a setter that stores the directory before it checks it
SetsBeforeChecking(directory) ==
  /\ gameInstallationPath' = directory
  /\ returned' = IF HasDataDirectory(directory)
                 THEN Self ELSE "Error: Invalid game directory"
  /\ UNCHANGED <<gltfDocument, materialDefinitions, pendingCommands, platform,
                 fsPaths, sessions, normalized, saves, executions, enqueued,
                 writes, mkdirs>>
  /\ UNCHANGED eventVars

SetGameInstallationDirectory(directory) ==
  /\ IF ~HasDataDirectory(directory)
     THEN /\ returned' = "Error: Invalid game directory"
          /\ UNCHANGED gameInstallationPath
     ELSE /\ gameInstallationPath' = directory
          /\ returned' = Self
  /\ UNCHANGED <<gltfDocument, materialDefinitions, pendingCommands, platform,
                 fsPaths, sessions, normalized, saves, executions, enqueued,
                 writes, mkdirs>>
  /\ UNCHANGED eventVars

-----------------------------------------------------------------------------
(* A session over a normalised document, on a machine without the default  *)
(* installation                                                            *)

InitialCatalog == [items |-> [a |-> [title |-> "T"]]]
InitialDocument == <<[name |-> "T", extras |-> [item_id |-> "a"]]>>

Init ==
  /\ gltfDocument = InitialDocument
  /\ materialDefinitions = InitialCatalog
  /\ platform = "linux"
  /\ fsPaths = {<<"out">>, <<"DU">>, PathJoin(<<"DU">>, DataSubPath)}
  /\ gameInstallationPath = NoPath
  /\ pendingCommands = <<>>
  /\ sessions = 1
  /\ normalized = <<InitialDocument>>
  /\ saves = <<>>
  /\ executions = <<>>
  /\ enqueued = <<>>
  /\ writes = <<>>
  /\ mkdirs = <<>>
  /\ returned = "none"
  /\ listeners = <<>>
  /\ published = <<>>

Next ==
  \/ \E command \in CommandFunctions : QueueTransform(command, ArgumentsFor(command))
  \/ WithBaseColors
  \/ \E file \in Files, saveAsJson \in BOOLEAN : SaveToFile(file, saveAsJson)
  \/ \E d \in DOMAIN saves : CommandQueuesTransform(d)
  \/ \E d \in DOMAIN saves : CommandSettles(d)
  \/ \E d \in DOMAIN saves : SaveResumes(d)
  \/ \E d \in DOMAIN saves : MkdirSettles(d)

Spec == Init /\ [][Next]_vars

-----------------------------------------------------------------------------
(* Properties of the processing queue *)

Range(f) == {f[x] : x \in DOMAIN f}

\* the identities of the commands of a queue, in queue order
Ids(commands) == [j \in DOMAIN commands |-> commands[j].id]

\* the invocations save d has made, in order
ExecutedBy(d) == SelectSeq(executions, LAMBDA e : e.save = d)

\* the queue() calls made after n saveToFile calls and before the next one
CallsAfterSaves(n) == {k \in DOMAIN enqueued : enqueued[k].drains = n}

\* a set of numbers as an ascending sequence
Ascending(S) ==
  [i \in 1..Cardinality(S) |-> CHOOSE k \in S : Cardinality({j \in S : j < k}) = i - 1]

\* processQueue of save d has returned without a rejection
ProcessQueueReturned(d) ==
  saves[d].pc \in {"drained", "mkdir", "written"} \/ saves[d].err = "io"

\* C1: when a drain ends with no command failing, it has executed exactly the
\* commands queued since the previous drain began, once each, in the order
\* they were queued.
C1_DrainExecutesFifo ==
  \A d \in DOMAIN saves :
    ProcessQueueReturned(d) =>
      /\ Ids(ExecutedBy(d)) = Ascending(CallsAfterSaves(d - 1))
      /\ \A j \in DOMAIN ExecutedBy(d) :
           ExecutedBy(d)[j].fn = enqueued[ExecutedBy(d)[j].id].fn

\* a drain of two queued commands of different functions ran to its end and
\* its save wrote the document
C1_Witness ==
  \E d \in DOMAIN saves :
    /\ saves[d].pc = "written"
    /\ Len(ExecutedBy(d)) = 2
    /\ ExecutedBy(d)[1].fn = "edit"
    /\ ExecutedBy(d)[2].fn = BaseColorsTransform

\* C2: a command queued by a command running in drain d is not in d's copy
\* and is never invoked by d; it is in the queue until the next saveToFile
\* call, whose drain holds it from then on and has invoked it once when it
\* ends without a failure.
C2_QueuedDuringDrainWaits ==
  \A k \in DOMAIN enqueued :
    enqueued[k].by # 0 =>
      LET d == enqueued[k].by
          n == enqueued[k].drains
      IN  /\ k \notin Range(Ids(saves[d].queue))
          /\ \A j \in DOMAIN executions :
               executions[j].id = k => executions[j].save = n + 1 /\ n + 1 > d
          /\ IF Len(saves) = n
             THEN k \in Range(Ids(pendingCommands))
             ELSE /\ k \notin Range(Ids(pendingCommands))
                  /\ k \in Range(Ids(saves[n + 1].queue))
                  /\ ProcessQueueReturned(n + 1) =>
                       Cardinality({j \in DOMAIN executions : executions[j].id = k}) = 1

\* a command queued by a running command was invoked by the following drain,
\* after the drain that queued it had ended
C2_Witness ==
  \E k \in DOMAIN enqueued :
    /\ enqueued[k].by # 0
    /\ saves[enqueued[k].by].pc = "written"
    /\ \E j \in DOMAIN executions : executions[j].id = k

\* C3: when the k-th command of a drain's copy fails, the drain has invoked
\* the first k commands of the copy and invokes no other, saveToFile has
\* rejected, and no command of the copy is in the queue or in another drain's
\* copy; a failing function that has settled has failed its drain.
C3_FailureStopsDrainAndLosesCommands ==
  \A d \in DOMAIN saves :
    /\ saves[d].err = "command" =>
         /\ saves[d].pc = "failed"
         /\ Ids(ExecutedBy(d)) = SubSeq(Ids(saves[d].queue), 1, saves[d].i)
         /\ Range(Ids(saves[d].queue)) \cap Range(Ids(pendingCommands)) = {}
         /\ \A other \in DOMAIN saves \ {d} :
              Range(Ids(saves[d].queue)) \cap Range(Ids(saves[other].queue)) = {}
         /\ \A j \in DOMAIN executions :
              executions[j].id \in Range(Ids(saves[d].queue)) => executions[j].save = d
    /\ \A j \in DOMAIN saves[d].queue :
         (/\ saves[d].queue[j].fn = "failing"
          /\ saves[d].i > j \/ (saves[d].i = j /\ saves[d].pc # "command"))
         => saves[d].err = "command" /\ saves[d].i = j

\* the first of two commands of a drain failed, and a later saveToFile call
\* has drained and written
C3_Witness ==
  /\ Len(saves) = 2
  /\ saves[1].err = "command"
  /\ saves[1].i = 1
  /\ Len(saves[1].queue) = 2
  /\ saves[2].pc = "written"

\* C4 as stated: no command is invoked twice, and at the step that ends a
\* drain the queue holds exactly the commands queued since that drain began,
\* in the order they were queued.
C4_QueueAfterDrain ==
  [][/\ \A j1, j2 \in DOMAIN executions' :
          executions'[j1].id = executions'[j2].id => j1 = j2
     /\ \A d \in DOMAIN saves :
          (saves[d].pc = "command" /\ saves'[d].pc # "command") =>
            Ids(pendingCommands') =
              Ascending({k \in DOMAIN enqueued' : enqueued'[k].drains >= d})]_vars

\* C5 as stated: at most one queued command is in execution at any time.
C5_OneCommandAtATime ==
  Cardinality({d \in DOMAIN saves : saves[d].pc = "command"}) <= 1

\* the documents handed to NodeIO.write by save d
WritesBy(d) == SelectSeq(writes, LAMBDA w : w.save = d)

\* the number of materials "edit" commands have created in a document
Edits(document) == Cardinality({i \in DOMAIN document : document[i] = EditedMaterial})

\* C6: a save that has handed the document to write has invoked and awaited
\* every command of its copy, and the document handed over holds their edits;
\* a save one of whose commands failed has created no directory and has
\* handed nothing to write.
C6_DrainThenWrite ==
  \A d \in DOMAIN saves :
    /\ \A j \in DOMAIN WritesBy(d) :
         /\ saves[d].pc = "written"
         /\ Ids(ExecutedBy(d)) = Ids(saves[d].queue)
         /\ Edits(WritesBy(d)[j].document) >=
              Cardinality({c \in DOMAIN saves[d].queue : saves[d].queue[c].fn = "edit"})
    /\ saves[d].err = "command" =>
         /\ WritesBy(d) = <<>>
         /\ \A j \in DOMAIN mkdirs : mkdirs[j].save # d

\* one save as .gltf failed in its command and a later one created the
\* directory and wrote the document after its command, an edit
C6_Witness ==
  /\ Len(saves) = 2
  /\ saves[1].err = "command"
  /\ saves[1].saveAsJson
  /\ Len(saves[2].queue) = 1
  /\ saves[2].queue[1].fn = "edit"
  /\ saves[2].saveAsJson
  /\ saves[2].pc = "written"
  /\ Len(mkdirs) = 1

\* C7 as stated: a command queued with queueTransform(fn, a1, ..., an) is
\* invoked with the context followed by a1, ..., an as separate arguments.
C7_ArgumentsSpread ==
  \A j \in DOMAIN executions :
    enqueued[executions[j].id].via = "queueTransform" =>
      executions[j].arguments = <<Context>> \o enqueued[executions[j].id].given

-----------------------------------------------------------------------------
(* Properties of construction *)

\* the material resolves to an entry of the catalog
ResolvesInCatalog(material) ==
  getGameItemIdFromGltfMaterial(material) \in DOMAIN materialDefinitions.items

\* the material carries the title and the item id of the definition it resolves to
CarriesResolvedIdentity(material) ==
  /\ material.name = TitleOf(getGameMaterialFromGltfMaterial(material))
  /\ "item_id" \in DOMAIN material.extras
  /\ material.extras["item_id"] = getGameItemIdFromGltfMaterial(material)

\* C9: a further construction over the document the first one normalised
\* leaves every material's name and extras as the first one left them.
C9_NormalizationIdempotent ==
  \A pass \in 2..Len(normalized) : normalized[pass] = normalized[1]

\* two sessions were constructed and the first pass stamped an item id that
\* came from a material's name
C9_Witness ==
  /\ Len(normalized) >= 2
  /\ \E i \in DOMAIN gltfDocument :
       /\ "item_id" \in DOMAIN normalized[1][i].extras
       /\ normalized[1][i].extras["item_id"] = "a"
       /\ normalized[1][i].name = "T"

\* C10 as stated: after construction every material that resolves in the
\* catalog has the definition's title as name and the resolved id as item_id.
C10_ResolvedMaterialsNormalized ==
  sessions >= 1 =>
    \A i \in DOMAIN gltfDocument :
      ResolvesInCatalog(gltfDocument[i]) => CarriesResolvedIdentity(gltfDocument[i])

\* C10 amended: after construction every material whose item id is non-empty
\* and resolves in the catalog has the definition's title as name and the
\* resolved id as item_id.
C10_NonEmptyResolvedMaterialsNormalized ==
  sessions >= 1 =>
    \A i \in DOMAIN gltfDocument :
      (/\ Truthy(getGameItemIdFromGltfMaterial(gltfDocument[i]))
       /\ ResolvesInCatalog(gltfDocument[i]))
      => CarriesResolvedIdentity(gltfDocument[i])

\* a session was constructed over a two-material document of which the first
\* material resolves through its item_id extra and the second does not resolve
C10_Witness ==
  /\ sessions = 1
  /\ Len(gltfDocument) = 2
  /\ ResolvesInCatalog(gltfDocument[1])
  /\ "item_id" \in DOMAIN gltfDocument[1].extras
  /\ gltfDocument[1].extras["item_id"] = "b"
  /\ gltfDocument[1].name = "T"
  /\ ~ResolvesInCatalog(gltfDocument[2])

\* the material has no definition in the catalog
Unresolvable(material) == ~ResolvesInCatalog(material)

\* the extras fields other than item_id
OtherExtras(material) == DOMAIN material.extras \ {"item_id"}

\* C11: a construction changes nothing else: every material keeps its extras
\* fields other than item_id with their values, and a material with no
\* definition in the catalog keeps its name and its whole extras.
C11_NormalizationFrame ==
  [][sessions' = sessions + 1 =>
       /\ Len(gltfDocument') = Len(gltfDocument)
       /\ \A i \in DOMAIN gltfDocument :
            /\ OtherExtras(gltfDocument'[i]) = OtherExtras(gltfDocument[i])
            /\ \A k \in OtherExtras(gltfDocument[i]) :
                 gltfDocument'[i].extras[k] = gltfDocument[i].extras[k]
            /\ Unresolvable(gltfDocument[i]) => gltfDocument'[i] = gltfDocument[i]]_vars

-----------------------------------------------------------------------------
(* Resolver calls on a constructed session *)

\* the item ids a caller looks up: catalog keys, material names, and one
\* that is neither
LookupIds == CatalogKeys \cup MaterialNames \cup {"zz"}

\* no resolver call has been made
NoCall == [call |-> "none"]

\* the callback of map: the pair of a material and its game material, or null
PairOrNull(document, i) ==
  LET gameMaterial == getGameMaterialFromGltfMaterial(document[i])
  IN  IF gameMaterial # Null
      THEN [index |-> i, material |-> document[i], gameMaterial |-> gameMaterial]
      ELSE Null

\* listMaterials().map(...)
Mapped(document) == [i \in DOMAIN document |-> PairOrNull(document, i)]

\* .filter((pair) => !!pair)
getGltfMaterialsWithGameMaterials ==
  SelectSeq(Mapped(gltfDocument), LAMBDA pair : pair # Null)

\* session.getGameItemIdFromGltfMaterial(listMaterials()[i])
CallGetGameItemIdFromGltfMaterial(i) ==
  /\ returned = NoCall
  /\ returned' = [call |-> "getGameItemIdFromGltfMaterial", arg |-> i,
                  result |-> getGameItemIdFromGltfMaterial(gltfDocument[i])]
  /\ UNCHANGED <<gltfDocument, materialDefinitions, gameInstallationPath,
                 pendingCommands, platform, fsPaths, sessions, normalized, saves,
                 executions, enqueued, writes, mkdirs>>
  /\ UNCHANGED eventVars

\* session.getGameMaterialFromItemId(itemId)
CallGetGameMaterialFromItemId(itemId) ==
  /\ returned = NoCall
  /\ returned' = [call |-> "getGameMaterialFromItemId", arg |-> itemId,
                  result |-> getGameMaterialFromItemId(itemId)]
  /\ UNCHANGED <<gltfDocument, materialDefinitions, gameInstallationPath,
                 pendingCommands, platform, fsPaths, sessions, normalized, saves,
                 executions, enqueued, writes, mkdirs>>
  /\ UNCHANGED eventVars

\* session.getGltfMaterialsWithGameMaterials()
CallGetGltfMaterialsWithGameMaterials ==
  /\ returned = NoCall
  /\ returned' = [call |-> "getGltfMaterialsWithGameMaterials",
                  result |-> getGltfMaterialsWithGameMaterials]
  /\ UNCHANGED <<gltfDocument, materialDefinitions, gameInstallationPath,
                 pendingCommands, platform, fsPaths, sessions, normalized, saves,
                 executions, enqueued, writes, mkdirs>>
  /\ UNCHANGED eventVars

\* a session constructed over any document with any catalog
InitResolve ==
  /\ materialDefinitions \in Catalogs
  /\ \E document \in Documents : gltfDocument = PreProcessMaterials(document)
  /\ platform = "darwin"
  /\ fsPaths = {}
  /\ gameInstallationPath = NoPath
  /\ pendingCommands = <<>>
  /\ sessions = 1
  /\ normalized = <<gltfDocument>>
  /\ saves = <<>>
  /\ executions = <<>>
  /\ enqueued = <<>>
  /\ writes = <<>>
  /\ mkdirs = <<>>
  /\ returned = NoCall
  /\ listeners = <<>>
  /\ published = <<>>

NextResolve ==
  \/ \E i \in DOMAIN gltfDocument : CallGetGameItemIdFromGltfMaterial(i)
  \/ \E itemId \in LookupIds : CallGetGameMaterialFromItemId(itemId)
  \/ CallGetGltfMaterialsWithGameMaterials

SpecResolve == InitResolve /\ [][NextResolve]_vars

-----------------------------------------------------------------------------
(* Properties of the resolver *)

\* the indexes of the materials that have a definition in the catalog
ResolvedIndexes == {i \in DOMAIN gltfDocument : ResolvesInCatalog(gltfDocument[i])}

\* C12: getGltfMaterialsWithGameMaterials returns one pair for exactly the
\* materials that have a definition in the catalog, in the document's order,
\* each pair holding the material and its definition.
C12_PairsAreTheResolvedMaterials ==
  returned.call = "getGltfMaterialsWithGameMaterials" =>
    LET pairs == returned.result
        order == Ascending(ResolvedIndexes)
    IN  /\ Len(pairs) = Len(order)
        /\ \A j \in DOMAIN pairs :
             /\ pairs[j].index = order[j]
             /\ pairs[j].material = gltfDocument[order[j]]
             /\ pairs[j].gameMaterial =
                  materialDefinitions.items[
                    getGameItemIdFromGltfMaterial(gltfDocument[order[j]])]

\* C13: getGameItemIdFromGltfMaterial returns the item_id extra when it is
\* present and non-empty and the name otherwise, so "" for a material that
\* has neither.
C13_ItemIdOrName ==
  returned.call = "getGameItemIdFromGltfMaterial" =>
    LET material == gltfDocument[returned.arg]
        present == "item_id" \in DOMAIN material.extras
    IN  /\ (present /\ material.extras["item_id"] # "")
             => returned.result = material.extras["item_id"]
        /\ (~present \/ material.extras["item_id"] = "")
             => returned.result = material.name
        /\ (~present /\ material.name = "") => returned.result = ""

\* the lookup was made on a material with an empty item_id and a name, and
\* answered with the name
C13_Witness ==
  /\ returned.call = "getGameItemIdFromGltfMaterial"
  /\ "item_id" \in DOMAIN gltfDocument[returned.arg].extras
  /\ gltfDocument[returned.arg].extras["item_id"] = ""
  /\ gltfDocument[returned.arg].name = "a"
  /\ returned.result = "a"

\* C14: getGameMaterialFromItemId returns the definition when itemId is a key
\* of the catalog and null for every other itemId.
C14_DefinitionOrNull ==
  returned.call = "getGameMaterialFromItemId" =>
    IF returned.arg \in DOMAIN materialDefinitions.items
    THEN returned.result = materialDefinitions.items[returned.arg]
    ELSE returned.result = Null

-----------------------------------------------------------------------------
(* Configuring the installation directory *)

\* the directories on disk: each of the directories a caller configures may
\* exist, with or without its Game/data
ConfigFileSystems ==
  {S \in SUBSET (Directories \cup {PathJoin(d, DataSubPath) : d \in Directories}) :
     \A d \in Directories : PathJoin(d, DataSubPath) \in S => d \in S}

\* the documents of the sessions that are configured
ConfigDocuments == {document \in Documents : Len(document) <= 1}

InitConfig ==
  /\ gltfDocument \in ConfigDocuments
  /\ materialDefinitions = InitialCatalog
  /\ platform \in {"win32", "linux"}
  /\ fsPaths \in ConfigFileSystems
  /\ gameInstallationPath = NoPath
  /\ pendingCommands = <<>>
  /\ sessions = 0
  /\ normalized = <<>>
  /\ saves = <<>>
  /\ executions = <<>>
  /\ enqueued = <<>>
  /\ writes = <<>>
  /\ mkdirs = <<>>
  /\ returned = "none"
  /\ listeners = <<>>
  /\ published = <<>>

NextConfig ==
  \/ FromDocument
  \/ \E directory \in Directories :
       sessions >= 1 /\ SetGameInstallationDirectory(directory)

SpecConfig == InitConfig /\ [][NextConfig]_vars

\* C15: setGameInstallationDirectory(directory) throws when directory has no
\* Game/data and leaves the installation directory, set or not, as it was;
\* otherwise the installation directory becomes directory.
C15_InvalidDirectoryRejected ==
  [][\A directory \in Directories :
       SetGameInstallationDirectory(directory) =>
         IF HasDataDirectory(directory)
         THEN /\ gameInstallationPath' = directory
              /\ returned' = Self
         ELSE /\ gameInstallationPath' = gameInstallationPath
              /\ returned' = "Error: Invalid game directory"]_vars

\* a call with a directory that has no Game/data threw after an earlier call
\* had set the installation directory, which is still set
C15_Witness ==
  /\ returned = "Error: Invalid game directory"
  /\ gameInstallationPath = <<"DU">>
  /\ ~HasDataDirectory(DefaultGameInstall)

-----------------------------------------------------------------------------
(* The event channel *)

\* the listeners a caller subscribes: one that logs the event and one whose
\* body throws
ListenerKinds == {"logging", "throwing"}

\* the transform functions queued here: "notifying" calls
\* context.transformer.notify(...) once while it runs
NotifyingFunctions == {"notifying", "edit"}

\* session.events().on(type, listener)
Subscribe(kind) ==
  /\ Len(listeners) < MaxListeners
  /\ listeners' = Append(listeners, kind)
  /\ UNCHANGED <<gltfDocument, materialDefinitions, gameInstallationPath,
                 pendingCommands, platform, fsPaths, sessions, normalized, saves,
                 executions, enqueued, writes, mkdirs, returned, published>>

\* the position of the first listener that throws, or 0
FirstThrowing(subscribed) ==
  IF \E j \in DOMAIN subscribed : subscribed[j] = "throwing"
  THEN CHOOSE j \in DOMAIN subscribed :
         /\ subscribed[j] = "throwing"
         /\ \A h \in 1..(j - 1) : subscribed[h] # "throwing"
  ELSE 0

\* emitter.emit(type, ...args): the listeners are called at once, in
\* subscription order; an exception of a listener leaves emit, and the
\* listeners after it are not called
Reached(subscribed) ==
  IF FirstThrowing(subscribed) = 0 THEN [j \in DOMAIN subscribed |-> j]
  ELSE [j \in 1..FirstThrowing(subscribed) |-> j]

\* a running "notifying" command calls context.transformer.notify(type, ...):
\* notify returns what emit returns and throws what emit throws, and the
\* command, which does not catch, rejects with it
CommandNotifies(d) ==
  /\ saves[d].pc = "command"
  /\ Running(d).fn = "notifying"
  /\ \A n \in DOMAIN published : published[n].id # Running(d).id
  /\ published' = Append(published,
       [id |-> Running(d).id, save |-> d, subscribed |-> Len(listeners),
        reached |-> Reached(listeners), threw |-> FirstThrowing(listeners) # 0])
  /\ saves' = IF FirstThrowing(listeners) # 0
              THEN [saves EXCEPT ![d] = Rejected(saves[d])]
              ELSE saves
  /\ UNCHANGED <<gltfDocument, materialDefinitions, gameInstallationPath,
                 pendingCommands, platform, fsPaths, sessions, normalized,
                 executions, enqueued, writes, mkdirs, returned, listeners>>

NextEvents ==
  \/ \E kind \in ListenerKinds : Subscribe(kind)
  \/ \E command \in NotifyingFunctions : QueueTransform(command, ArgumentsFor(command))
  \/ \E file \in Files : SaveToFile(file, FALSE)
  \/ \E d \in DOMAIN saves : CommandNotifies(d)
  \/ \E d \in DOMAIN saves : CommandSettles(d)
  \/ \E d \in DOMAIN saves : SaveResumes(d)

SpecEvents == Init /\ [][NextEvents]_vars

\* C17: a notify() call reaches every listener subscribed at that moment, in
\* subscription order, and whatever the listeners are, the publishing command
\* and its drain go on as with no listener: the saves, the queue, the
\* document and the catalog are as before the call.
C17_NotifyNeverAffectsControlFlow ==
  [][Len(published') > Len(published) =>
       /\ published'[Len(published')].reached = [j \in DOMAIN listeners |-> j]
       /\ saves' = saves
       /\ UNCHANGED <<pendingCommands, gltfDocument, materialDefinitions>>]_vars

-----------------------------------------------------------------------------
(* Properties of the session's life *)

\* C18 as stated: a session's operations are queueTransform calls, then one
\* save: no queue() call is made once a saveToFile call has been made, and no
\* second saveToFile call is made.
C18_QueuingThenOneSave ==
  /\ \A k \in DOMAIN enqueued : enqueued[k].drains = 0
  /\ Len(saves) <= 1

\* C18 amended: queue() and saveToFile calls are accepted in any order and
\* number: a command queued after n saveToFile calls is in the queue until the
\* next saveToFile call and in that call's copy from then on, and each
\* saveToFile call copies exactly the commands queued since the one before.
C18_QueuingAndSavingInterleave ==
  /\ \A k \in DOMAIN enqueued :
       IF Len(saves) = enqueued[k].drains
       THEN k \in Range(Ids(pendingCommands))
       ELSE k \in Range(Ids(saves[enqueued[k].drains + 1].queue))
  /\ Ids(pendingCommands) = Ascending(CallsAfterSaves(Len(saves)))
  /\ \A d \in DOMAIN saves : Ids(saves[d].queue) = Ascending(CallsAfterSaves(d - 1))

\* a first save wrote the document; the caller then queued a command, and a
\* second save invoked it and wrote the document again
C18_Witness ==
  /\ Len(writes) = 2
  /\ writes[1].save = 1
  /\ writes[2].save = 2
  /\ Len(enqueued) = 2
  /\ enqueued[2].drains = 1
  /\ enqueued[2].by = 0
  /\ Ids(ExecutedBy(2)) = <<2>>
  /\ Len(writes[2].document) > Len(writes[1].document)

\* the commands queued before save d's saveToFile call
QueuedBefore(d) == {k \in DOMAIN enqueued : enqueued[k].drains < d}

\* command k has been invoked and its invocation has settled
Finished(k) ==
  /\ \E e \in DOMAIN executions : executions[e].id = k
  /\ \A d \in DOMAIN saves :
       saves[d].pc = "command" => Running(d).id # k

\* C19: when a save hands the document to the write, every command queued
\* before that save's saveToFile call has finished and no command is running.
C19_WriteAfterAllCommands ==
  [][Len(writes') > Len(writes) =>
       LET d == writes'[Len(writes')].save
       IN  /\ \A k \in QueuedBefore(d) : Finished(k)
           /\ \A other \in DOMAIN saves : saves[other].pc # "command"]_vars

\* the transform functions queued where termination is at stake: one that
\* queues itself again each time it runs, and one that throws
RequeuingFunctions == {"requeue", "failing"}

\* a step of a pending save: its running command makes a call it is written
\* to make or settles, the awaited drain resumes saveToFile, or mkdir settles
SaveStep ==
  \E d \in DOMAIN saves :
    \/ CommandQueuesTransform(d)
    \/ CommandSettles(d)
    \/ SaveResumes(d)
    \/ MkdirSettles(d)

NextDrain ==
  \/ \E command \in RequeuingFunctions : QueueTransform(command, ArgumentsFor(command))
  \/ \E file \in Files, saveAsJson \in BOOLEAN : SaveToFile(file, saveAsJson)
  \/ \E d \in DOMAIN saves : CommandQueuesTransform(d)
  \/ \E d \in DOMAIN saves : CommandSettles(d)
  \/ \E d \in DOMAIN saves : SaveResumes(d)
  \/ \E d \in DOMAIN saves : MkdirSettles(d)

\* every command terminates and the event loop runs what can run
Fairness == WF_vars(SaveStep)

SpecFair == Init /\ [][NextDrain]_vars /\ Fairness

\* a drain invokes at most as many commands as the queue held when the drain
\* began, and each command of its copy at most once, in the copy's order
DrainBoundedByCopy ==
  \A d \in DOMAIN saves :
    /\ Len(saves[d].queue) = Cardinality(CallsAfterSaves(d - 1))
    /\ Len(ExecutedBy(d)) <= Len(saves[d].queue)
    /\ \A j \in DOMAIN ExecutedBy(d) : ExecutedBy(d)[j].id = saves[d].queue[j].id

\* every saveToFile call reaches its write or fails
SaveWritesOrFails ==
  \A d \in 1..MaxSaves :
    (d \in DOMAIN saves) ~>
      (d \in DOMAIN saves /\ saves[d].pc \in {"written", "failed"})

\* C20: a drain invokes at most as many commands as the queue held when the
\* drain began, whatever the running commands queue meanwhile, and every
\* saveToFile call reaches its write or fails.
C20_DrainTerminates == []DrainBoundedByCopy /\ SaveWritesOrFails

\* a command that queued itself while it ran was invoked once by the save
\* that ran it, which wrote the document, and is in the queue again
C20_Witness ==
  /\ Len(saves) = 1
  /\ saves[1].pc = "written"
  /\ Len(saves[1].queue) = 1
  /\ saves[1].queue[1].fn = "requeue"
  /\ Len(ExecutedBy(1)) = 1
  /\ Len(pendingCommands) = 1
  /\ pendingCommands[1].fn = "requeue"

-----------------------------------------------------------------------------
(* The catalog over a session's operations *)

\* the situations a session is in: its queue is filled and saved, its
\* resolver is called, or it is constructed and configured
Queuing == <<"out">> \in fsPaths
Resolving == platform = "darwin"
Configuring == ~Queuing /\ ~Resolving

InitAll == Init \/ InitResolve \/ InitConfig

NextAll ==
  \/ Queuing /\ Next
  \/ Resolving /\ NextResolve
  \/ Configuring /\ NextConfig

SpecAll == InitAll /\ [][NextAll]_vars

\* C16: no operation of a session (construction, queueTransform, the drain,
\* the resolver calls, setGameInstallationDirectory, saveToFile) adds, removes
\* or changes an entry of the catalog.
C16_CatalogReadOnly == [][materialDefinitions' = materialDefinitions]_vars

\* a session was constructed over a material it renamed to the title of its
\* catalog entry, and then configured: the catalog has the entry as before
C16_Witness ==
  /\ Configuring
  /\ sessions >= 1
  /\ gameInstallationPath = <<"DU">>
  /\ Len(gltfDocument) = 1
  /\ gltfDocument[1].name = "T"
  /\ "item_id" \in DOMAIN gltfDocument[1].extras
  /\ gltfDocument[1].extras["item_id"] = "a"
  /\ materialDefinitions = InitialCatalog

====
